---- MODULE Spec2Model ----
(***************************************************************************)
(* Model of the duplicate finder of src/test.py: build_duplicate_df        *)
(* (validation, normalisation, blocking, pairwise scoring, grouping,       *)
(* finalisation, sort) and the part of the /deduplicate/ endpoint that     *)
(* calls it and shapes the response.                                       *)
(*                                                                         *)
(* Strings are tuples of one-character strings.  An Optional value is a    *)
(* tuple of length 0 (None) or 1 (the value).  thefuzz's token_set_ratio   *)
(* is a library outside the repository: its result for two different       *)
(* non-blank strings is drawn from ScoreVals the first time the pair is    *)
(* asked for and remembered in fuzz_memo, so that it stays a function of   *)
(* its two arguments for the rest of the behaviour.  uuid.uuid4() draws    *)
(* from a source that is never rewound: uuid_state counts the draws.       *)
(***************************************************************************)
EXTENDS Integers, Sequences, FiniteSets, TLC

\* ------------------------------------------------------------------ bounds
MaxRows == 3

\* ------------------------------------------------------- program constants
NameFloor == 70
OverallFloor == 70
LowConfidenceCeiling == 90
HighConfidenceFloor == 98
RowOffset == 2
NamePrefixLen == 4

\* ---------------------------------------------------------------- strings
None == <<>>
Some(v) == <<v>>

UpperChars == <<"A","B","C","D","E","F","G","H","I","J","K","L","M",
                "N","O","P","Q","R","S","T","U","V","W","X","Y","Z">>
LowerChars == <<"a","b","c","d","e","f","g","h","i","j","k","l","m",
                "n","o","p","q","r","s","t","u","v","w","x","y","z">>
DigitChars == {"0","1","2","3","4","5","6","7","8","9"}
SpaceChars == {" ", "\t", "\n"}

Range(s) == { s[i] : i \in 1..Len(s) }

\* str.lower() on one character
LowerChar(c) ==
    IF \E i \in 1..Len(UpperChars) : UpperChars[i] = c
    THEN LowerChars[CHOOSE i \in 1..Len(UpperChars) : UpperChars[i] = c]
    ELSE c

Lower(s) == [i \in 1..Len(s) |-> LowerChar(s[i])]

\* str.strip(): drops leading and trailing whitespace
RECURSIVE LStrip(_)
LStrip(s) ==
    IF s # <<>> /\ Head(s) \in SpaceChars THEN LStrip(Tail(s)) ELSE s

RECURSIVE RStrip(_)
RStrip(s) ==
    IF s # <<>> /\ s[Len(s)] \in SpaceChars
    THEN RStrip(SubSeq(s, 1, Len(s) - 1))
    ELSE s

Strip(s) == RStrip(LStrip(s))

\* re.sub(r"[^a-z0-9\s]", " ", text)
KeepChar(c) == c \in Range(LowerChars) \/ c \in DigitChars \/ c \in SpaceChars

ReplaceOther(s) == [i \in 1..Len(s) |-> IF KeepChar(s[i]) THEN s[i] ELSE " "]

\* re.sub(r"\s+", " ", text)
RECURSIVE CollapseSpaces(_)
CollapseSpaces(s) ==
    IF s = <<>> THEN <<>>
    ELSE IF Head(s) \in SpaceChars
         THEN <<" ">> \o CollapseSpaces(LStrip(s))
         ELSE <<Head(s)>> \o CollapseSpaces(Tail(s))

normalize(text) == Strip(CollapseSpaces(ReplaceOther(Strip(Lower(text)))))

\* text[:n]
Prefix(s, n) == SubSeq(s, 1, IF Len(s) < n THEN Len(s) ELSE n)

\* ------------------------------------------------------------------ inputs
\* df.columns of the uploaded table
Columns == <<"Name", "Address", "City", "Country", "TPI">>

ColumnSet == Range(Columns)

Str_AcmeCo   == <<"A","c","m","e"," ","C","o">>
Str_AcmeCorp == <<"A","C","M","E"," ","C","o","r","p",".">>
Str_Blank    == <<" ","-">>
Str_MainSt   == <<"1"," ","M","a","i","n"," ","S","t">>
Str_MainRd   == <<"1"," ","M","A","I","N"," ","R","d">>
Str_Elm      == <<"9"," ","E","l","m">>
Str_Oslo     == <<"O","s","l","o">>
Str_oslo     == <<" ","o","s","l","o">>
Str_Rome     == <<"R","o","m","e">>
Str_NO       == <<"N","O">>
Str_IT       == <<"I","T">>
Str_Id1      == <<"7">>
Str_Empty    == <<>>

\* the rows a table is made of (dtype=str, na_filter=False: every cell is text)
Records ==
    { [Name |-> Str_AcmeCo,   Address |-> Str_MainSt, City |-> Str_Oslo,
       Country |-> Str_NO, TPI |-> Str_Id1],
      [Name |-> Str_AcmeCorp, Address |-> Str_MainRd, City |-> Str_oslo,
       Country |-> Str_NO, TPI |-> Str_Empty],
      [Name |-> Str_AcmeCo,   Address |-> Str_MainRd, City |-> Str_Rome,
       Country |-> Str_IT, TPI |-> Str_Id1],
      [Name |-> Str_Blank,    Address |-> Str_Elm,    City |-> Str_Empty,
       Country |-> Str_Empty, TPI |-> Str_Empty] }

Tables == UNION { [1..n -> Records] : n \in 0..MaxRows }

\* the values token_set_ratio may return for two different non-blank strings
ScoreVals == {69, 70, 89, 90}

\* DeduplicationColumnMap: a logical field is None, the table's column for it,
\* or a column name the table does not have ("CustName", "Addr", "Town", "TaxId")
FieldOrder == <<"customer_name", "address", "city", "country", "tpi">>

ColumnMaps ==
    [customer_name : {None, Some("Name"),    Some("CustName")},
     address       : {None, Some("Address"), Some("Addr")},
     city          : {None, Some("City"),    Some("Town")},
     country       : {None, Some("Country")},
     tpi           : {None, Some("TaxId")}]

\* ------------------------------------------------------------------- state
VARIABLES
    df,                   \* the table: a sequence of rows, row i has index i-1
    col_map,              \* the column mapping
    pc,                   \* where the request is
    call,                 \* 1 or 2: which invocation on this input
    error,                \* Some(ValueError raised by build_duplicate_df)
    work,                 \* the working copy with the normalised columns
    row_i,                \* blocking loop: number of rows already placed
    blocks,               \* dict in insertion order: <<[key, rows]>>
    block_stats,          \* Some(block statistics)
    bi,                   \* comparison loop: block being compared
    ci,                   \* comparison loop: combination within the block
    compared,             \* history: every pair the inner loop body ran on
    master_records_dict,  \* dict in insertion order, keyed by MasterRow
    masters_list,         \* the finalised groups, before the sort
    results_df,           \* Some(the rows returned)
    fuzz_memo,            \* what token_set_ratio has returned so far
    uuid_state,           \* number of uuid4() draws so far
    first_out,            \* Some(what invocation 1 returned)
    response              \* Some(DeduplicationResponse)

vars == <<df, col_map, pc, call, error, work, row_i, blocks, block_stats, bi, ci,
          compared, master_records_dict, masters_list, results_df, fuzz_memo,
          uuid_state, first_out, response>>

inputs == <<df, col_map>>

Init ==
    /\ df \in Tables
    /\ col_map \in ColumnMaps
    /\ pc = "request"
    /\ call = 1
    /\ error = None
    /\ work = <<>>
    /\ row_i = 0
    /\ blocks = <<>>
    /\ block_stats = None
    /\ bi = 1
    /\ ci = 1
    /\ compared = <<>>
    /\ master_records_dict = <<>>
    /\ masters_list = <<>>
    /\ results_df = None
    /\ fuzz_memo = {}
    /\ uuid_state = 0
    /\ first_out = None
    /\ response = None

\* ------------------------------------------------------------- validation
\* [val for val in col_map.model_dump().values() if val is not None]
RECURSIVE MappedFrom(_, _)
MappedFrom(cm, k) ==
    IF k > Len(FieldOrder) THEN <<>>
    ELSE cm[FieldOrder[k]] \o MappedFrom(cm, k + 1)

mapped_cols_from_user_file(cm) == MappedFrom(cm, 1)

\* mutant: the validation loop looks at the first mapped column only
MissingColumn_FirstOnly(cm) ==
    LET m == mapped_cols_from_user_file(cm)
    IN  IF m # <<>> /\ m[1] \notin ColumnSet THEN Some(m[1]) ELSE None

\* the first mapped column that is not in df.columns, as an Optional
MissingColumn(cm) ==
    LET m == mapped_cols_from_user_file(cm)
        bad == { k \in 1..Len(m) : m[k] \notin ColumnSet }
    IN  IF bad = {} THEN None
        ELSE Some(m[CHOOSE k \in bad : \A j \in bad : k <= j])

cols_to_select(cm) ==
    LET m == mapped_cols_from_user_file(cm)
    IN  SelectSeq(m, LAMBDA c : c \in ColumnSet)

ColumnNotFound(c) == [kind |-> "ColumnNotFound", column |-> c, available |-> Columns]

NoValidColumns == [kind |-> "NoValidColumns", column |-> "", available |-> <<>>]

\* mutant: the "if not cols_to_select" check is missing
ValidationError_NoEmptyCheck(cm) ==
    IF MissingColumn(cm) # None THEN Some(ColumnNotFound(MissingColumn(cm)[1]))
    ELSE None

\* the ValueError build_duplicate_df raises on this mapping, as an Optional
ValidationError(cm) ==
    IF MissingColumn(cm) # None THEN Some(ColumnNotFound(MissingColumn(cm)[1]))
    ELSE IF cols_to_select(cm) = <<>> THEN Some(NoValidColumns)
    ELSE None

\* build_duplicate_df, from its entry to the end of validation
Validate ==
    /\ pc = "request"
    /\ error' = ValidationError(col_map)
    /\ pc' = IF ValidationError(col_map) # None THEN "raised" ELSE "normalize"
    /\ UNCHANGED <<df, col_map, call, work, row_i, blocks, block_stats, bi, ci,
                   compared, master_records_dict, masters_list, results_df,
                   fuzz_memo, uuid_state, first_out, response>>

\* ----------------------------------------------------------- normalisation
IsMapped(cm, f) == cm[f] # None

\* work[f"{logical_field}_norm"] for one row
NormField(cm, row, f) ==
    IF IsMapped(cm, f) /\ cm[f][1] \in ColumnSet
    THEN normalize(row[cm[f][1]])
    ELSE <<>>

WorkRow(cm, row, idx) ==
    [raw                |-> [c \in Range(cols_to_select(cm)) |-> row[c]],
     ExcelRow           |-> idx,
     customer_name_norm |-> NormField(cm, row, "customer_name"),
     address_norm       |-> NormField(cm, row, "address"),
     city_norm          |-> NormField(cm, row, "city"),
     country_norm       |-> NormField(cm, row, "country")]

Normalize ==
    /\ pc = "normalize"
    /\ work' = [i \in 1..Len(df) |-> WorkRow(col_map, df[i], i - 1)]
    /\ row_i' = 0
    /\ blocks' = <<>>
    /\ pc' = "blocking"
    /\ UNCHANGED <<df, col_map, call, error, block_stats, bi, ci, compared,
                   master_records_dict, masters_list, results_df, fuzz_memo,
                   uuid_state, first_out, response>>

\* ---------------------------------------------------------------- blocking
Sentinel_xxxx == <<"x","x","x","x">>
Sentinel_y == <<"y">>

\* mutant: the "if not name_prefix" fallback is missing
name_prefix_NoFallback(cm, w) ==
    IF IsMapped(cm, "customer_name")
    THEN Prefix(w.customer_name_norm, NamePrefixLen)
    ELSE Sentinel_xxxx

name_prefix(cm, w) ==
    LET p == IF IsMapped(cm, "customer_name")
             THEN Prefix(w.customer_name_norm, NamePrefixLen)
             ELSE Sentinel_xxxx
    IN  IF p = <<>> THEN Sentinel_xxxx ELSE p

city_prefix(cm, w) ==
    IF IsMapped(cm, "city") /\ w.city_norm # <<>>
    THEN Prefix(w.city_norm, 1)
    ELSE Sentinel_y

BlockKey(cm, w) == name_prefix(cm, w) \o <<"_">> \o city_prefix(cm, w)

\* mutant: the dict is keyed by the name prefix alone
SetDefaultAppend_NamePrefix(bs, key, i) ==
    IF \E k \in 1..Len(bs) : Prefix(bs[k].key, NamePrefixLen) = Prefix(key, NamePrefixLen)
    THEN [k \in 1..Len(bs) |->
            IF Prefix(bs[k].key, NamePrefixLen) = Prefix(key, NamePrefixLen)
            THEN [bs[k] EXCEPT !.rows = Append(@, i)] ELSE bs[k]]
    ELSE Append(bs, [key |-> key, rows |-> <<i>>])

\* blocks.setdefault(key, []).append(i)
SetDefaultAppend(bs, key, i) ==
    IF \E k \in 1..Len(bs) : bs[k].key = key
    THEN [k \in 1..Len(bs) |->
            IF bs[k].key = key THEN [bs[k] EXCEPT !.rows = Append(@, i)] ELSE bs[k]]
    ELSE Append(bs, [key |-> key, rows |-> <<i>>])

BlockRow ==
    /\ pc = "blocking"
    /\ row_i < Len(work)
    /\ blocks' = SetDefaultAppend(blocks, BlockKey(col_map, work[row_i + 1]),
                                  work[row_i + 1].ExcelRow)
    /\ row_i' = row_i + 1
    /\ UNCHANGED <<df, col_map, pc, call, error, work, block_stats, bi, ci, compared,
                   master_records_dict, masters_list, results_df, fuzz_memo,
                   uuid_state, first_out, response>>

RECURSIVE SumLen(_)
SumLen(bs) == IF bs = <<>> THEN 0 ELSE Len(Head(bs).rows) + SumLen(Tail(bs))

MaxLen(bs) ==
    IF bs = <<>> THEN 0
    ELSE LET sizes == { Len(bs[k].rows) : k \in 1..Len(bs) }
         IN  CHOOSE m \in sizes : \A n \in sizes : n <= m

\* mutant: the statistics leave out the blocks the comparison skips
BlockStatsOf_SkipSingletons(bs) ==
    LET big == SelectSeq(bs, LAMBDA b : Len(b.rows) >= 2)
    IN  [total_blocks      |-> Len(big),
         max_block_size    |-> MaxLen(big),
         avg_block_size    |-> IF big = <<>> THEN [num |-> 0, den |-> 1]
                               ELSE [num |-> SumLen(big), den |-> Len(big)],
         records_in_blocks |-> SumLen(big)]

\* avg_block_size is the quotient num / den (0 when there is no block)
BlockStatsOf(bs) ==
    [total_blocks      |-> Len(bs),
     max_block_size    |-> MaxLen(bs),
     avg_block_size    |-> IF bs = <<>> THEN [num |-> 0, den |-> 1]
                           ELSE [num |-> SumLen(bs), den |-> Len(bs)],
     records_in_blocks |-> SumLen(bs)]

\* mutant: master_records_dict is a module-level dict, not emptied by the call
ComputeBlockStats_GlobalDict ==
    /\ pc = "blocking"
    /\ row_i = Len(work)
    /\ block_stats' = Some(BlockStatsOf(blocks))
    /\ bi' = 1
    /\ ci' = 1
    /\ pc' = "compare"
    /\ UNCHANGED <<df, col_map, call, error, work, row_i, blocks, compared,
                   master_records_dict, masters_list, results_df, fuzz_memo,
                   uuid_state, first_out, response>>

ComputeBlockStats ==
    /\ pc = "blocking"
    /\ row_i = Len(work)
    /\ block_stats' = Some(BlockStatsOf(blocks))
    /\ master_records_dict' = <<>>
    /\ bi' = 1
    /\ ci' = 1
    /\ pc' = "compare"
    /\ UNCHANGED <<df, col_map, call, error, work, row_i, blocks, compared,
                   masters_list, results_df, fuzz_memo, uuid_state, first_out,
                   response>>

\* -------------------------------------------------------------- comparison
\* mutant: itertools.permutations(s, 2), which yields each pair both ways round
Combinations_Permutations(s) ==
    IF Len(s) < 2 THEN <<>>
    ELSE [k \in 1..(Len(s) * (Len(s) - 1)) |->
            LET i == ((k - 1) \div (Len(s) - 1)) + 1
                r == ((k - 1) % (Len(s) - 1)) + 1
            IN  <<s[i], s[IF r < i THEN r ELSE r + 1]>>]

\* mutant: itertools.combinations_with_replacement(s, 2)
RECURSIVE Combinations_WithReplacement(_)
Combinations_WithReplacement(s) ==
    IF s = <<>> THEN <<>>
    ELSE [k \in 1..Len(s) |-> <<s[1], s[k]>>] \o Combinations_WithReplacement(Tail(s))

\* itertools.combinations(s, 2), in the order it yields the pairs
RECURSIVE Combinations(_)
Combinations(s) ==
    IF Len(s) < 2 THEN <<>>
    ELSE [k \in 1..(Len(s) - 1) |-> <<s[1], s[k + 1]>>] \o Combinations(Tail(s))

\* thefuzz processes a string to nothing when it has no letter or digit
IsBlank(s) == normalize(s) = <<>>

\* what _fuzz.token_set_ratio(a, b) can return once memo is what it returned
token_set_ratio(memo, a, b) ==
    IF IsBlank(a) \/ IsBlank(b) THEN {0}
    ELSE IF a = b THEN {100}
    ELSE IF \E m \in memo : m.pair = {a, b}
         THEN { m.score : m \in { x \in memo : x.pair = {a, b} } }
         ELSE ScoreVals

\* neo_token_set_ratio(a, b) on two Optional strings
neo_token_set_ratio(memo, a, b) ==
    IF a = None \/ b = None THEN {0} ELSE token_set_ratio(memo, a[1], b[1])

Remember(memo, a, b, v) ==
    IF IsBlank(a) \/ IsBlank(b) \/ a = b THEN memo
    ELSE memo \cup {[pair |-> {a, b}, score |-> v]}

\* r[col_map.<field>] when the field is mapped, as an Optional
Cell(cm, r, f) == IF IsMapped(cm, f) THEN Some(r.raw[cm[f][1]]) ELSE None

RECURSIVE SumSeq(_)
SumSeq(s) == IF s = <<>> THEN 0 ELSE Head(s) + SumSeq(Tail(s))

\* Python's round(num / den) on non-negative integers: halves go to the even
PyRound(num, den) ==
    LET q == num \div den
        r == num % den
    IN  IF 2 * r < den THEN q
        ELSE IF 2 * r > den THEN q + 1
        ELSE IF q % 2 = 0 THEN q ELSE q + 1

\* mutant: the name floor is not applied; only the overall threshold rejects
NameFloorRejects_Never(cm, name_s) == FALSE

\* if col_map.customer_name and name_s < 70: continue
NameFloorRejects(cm, name_s) == IsMapped(cm, "customer_name") /\ name_s < NameFloor

\* mutant: name_s is appended whether or not a name column is mapped
scores_present_NameAlways(cm, name_s, addr_s) ==
    <<name_s>> \o (IF IsMapped(cm, "address") THEN <<addr_s>> ELSE <<>>)

scores_present(cm, name_s, addr_s) ==
    (IF IsMapped(cm, "customer_name") THEN <<name_s>> ELSE <<>>)
    \o (IF IsMapped(cm, "address") THEN <<addr_s>> ELSE <<>>)

OverallScore(sp) == IF sp # <<>> THEN PyRound(SumSeq(sp), Len(sp)) ELSE 0

\* mutant: the comparison with the overall threshold is <= instead of <
OverallRejects_UpTo(overall) == overall <= OverallFloor

\* if overall < 70: continue
OverallRejects(overall) == overall < OverallFloor

\* mutant: the comparison with the confidence ceiling is <= instead of <
IsLowConfidence_UpTo(overall) == overall <= LowConfidenceCeiling

IsLowConfidence(overall) == overall < LowConfidenceCeiling

ExcelRowNumber(r) == r.ExcelRow + RowOffset

dup_detail(cm, r2, name_s, addr_s, overall, uid) ==
    [Row             |-> ExcelRowNumber(r2),
     Name            |-> Cell(cm, r2, "customer_name"),
     Address         |-> Cell(cm, r2, "address"),
     Name_score      |-> IF IsMapped(cm, "customer_name") THEN Some(name_s) ELSE None,
     Addr_score      |-> IF IsMapped(cm, "address") THEN Some(addr_s) ELSE None,
     Overall_score   |-> overall,
     IsLowConfidence |-> IsLowConfidence(overall),
     LLM_conf        |-> None,
     uid             |-> uid]

HasMaster(d, row) == \E k \in 1..Len(d) : d[k].MasterRow = row

\* mutant: an existing group's list is replaced by the new detail, not appended to
AddDuplicate_Overwrite(d, cm, r1, detail, u) ==
    LET row == r1.ExcelRow + RowOffset
    IN  IF \E k \in 1..Len(d) : d[k].MasterRow = row
        THEN [k \in 1..Len(d) |->
                IF d[k].MasterRow = row
                THEN [d[k] EXCEPT !.Duplicates = <<detail>>]
                ELSE d[k]]
        ELSE Append(d, [MasterRow     |-> row,
                        MasterName    |-> IF cm.customer_name # None
                                          THEN Some(r1.raw[cm.customer_name[1]]) ELSE None,
                        MasterAddress |-> IF cm.address # None
                                          THEN Some(r1.raw[cm.address[1]]) ELSE None,
                        Duplicates    |-> <<detail>>,
                        master_uid    |-> u + 1])

\* lines 188-198: the detail goes to the group of r1's row, created on first use;
\* u is the uuid state after the detail's own draw
AddDuplicate(d, cm, r1, detail, u) ==
    LET row == ExcelRowNumber(r1)
    IN  IF HasMaster(d, row)
        THEN [k \in 1..Len(d) |->
                IF d[k].MasterRow = row
                THEN [d[k] EXCEPT !.Duplicates = Append(@, detail)]
                ELSE d[k]]
        ELSE Append(d, [MasterRow     |-> row,
                        MasterName    |-> Cell(cm, r1, "customer_name"),
                        MasterAddress |-> Cell(cm, r1, "address"),
                        Duplicates    |-> <<detail>>,
                        master_uid    |-> u + 1])

\* the body of the inner loop on the pair <<i1, i2>> when token_set_ratio
\* answers ns for the names and as for the addresses
PairOutcome(cm, w, d, u, i1, i2, ns, as) ==
    LET r1 == w[i1 + 1]
        r2 == w[i2 + 1]
        name_s == IF IsMapped(cm, "customer_name") THEN ns ELSE 0
        addr_s == IF IsMapped(cm, "address") THEN as ELSE 0
        sp == scores_present(cm, name_s, addr_s)
        overall == OverallScore(sp)
        detail == dup_detail(cm, r2, name_s, addr_s, overall, u + 1)
        newrow == ~HasMaster(d, ExcelRowNumber(r1))
    IN  IF NameFloorRejects(cm, name_s)
        THEN [outcome |-> "name_floor", name_s |-> name_s, scored |-> None,
              overall |-> None, dict |-> d, uuid |-> u]
        ELSE IF OverallRejects(overall)
        THEN [outcome |-> "overall_floor", name_s |-> name_s, scored |-> Some(sp),
              overall |-> Some(overall), dict |-> d, uuid |-> u]
        ELSE [outcome |-> "accepted", name_s |-> name_s, scored |-> Some(sp),
              overall |-> Some(overall),
              dict |-> AddDuplicate(d, cm, r1, detail, u + 1),
              uuid |-> IF newrow THEN u + 2 ELSE u + 1]

\* the position of the loops after the pair at <<b, c>>
NextPair(bs, b, c) ==
    IF c < Len(Combinations(bs[b].rows)) THEN <<b, c + 1>> ELSE <<b + 1, 1>>

\* if len(block_indices) < 2: continue
SkipBlock ==
    /\ pc = "compare"
    /\ bi <= Len(blocks)
    /\ Len(blocks[bi].rows) < 2
    /\ bi' = bi + 1
    /\ ci' = 1
    /\ UNCHANGED <<df, col_map, pc, call, error, work, row_i, blocks, block_stats,
                   compared, master_records_dict, masters_list, results_df,
                   fuzz_memo, uuid_state, first_out, response>>

\* one iteration of the loop over itertools.combinations(block_indices, 2)
ScorePair ==
    /\ pc = "compare"
    /\ bi <= Len(blocks)
    /\ Len(blocks[bi].rows) >= 2
    /\ LET pair == Combinations(blocks[bi].rows)[ci]
           i1 == pair[1]
           i2 == pair[2]
           n1 == Cell(col_map, work[i1 + 1], "customer_name")
           n2 == Cell(col_map, work[i2 + 1], "customer_name")
           a1 == Cell(col_map, work[i1 + 1], "address")
           a2 == Cell(col_map, work[i2 + 1], "address")
       IN  \E ns \in neo_token_set_ratio(fuzz_memo, n1, n2) :
             LET memo1 == IF n1 = None THEN fuzz_memo
                          ELSE Remember(fuzz_memo, n1[1], n2[1], ns)
                 cut == NameFloorRejects(col_map, ns)
             IN  \E as \in IF cut THEN {0} ELSE neo_token_set_ratio(memo1, a1, a2) :
                   LET memo2 == IF cut \/ a1 = None THEN memo1
                                ELSE Remember(memo1, a1[1], a2[1], as)
                       o == PairOutcome(col_map, work, master_records_dict,
                                        uuid_state, i1, i2, ns, as)
                   IN  /\ fuzz_memo' = memo2
                       /\ master_records_dict' = o.dict
                       /\ uuid_state' = o.uuid
                       /\ compared' = Append(compared,
                              [i1 |-> i1, i2 |-> i2, outcome |-> o.outcome,
                               name_s |-> o.name_s, scored |-> o.scored,
                               overall |-> o.overall])
    /\ bi' = NextPair(blocks, bi, ci)[1]
    /\ ci' = NextPair(blocks, bi, ci)[2]
    /\ UNCHANGED <<df, col_map, pc, call, error, work, row_i, blocks, block_stats,
                   masters_list, results_df, first_out, response>>

\* ------------------------------------------------------------ finalisation
Overall_scores(dups) == [k \in 1..Len(dups) |-> dups[k].Overall_score]

\* mutant: int(sum(sims) / len(sims)), which truncates
AvgSimilarity_Truncated(dups) ==
    IF dups # <<>> THEN SumSeq(Overall_scores(dups)) \div Len(dups) ELSE 0

\* round(sum(sims) / len(sims)) if sims else 0
AvgSimilarity(dups) ==
    IF dups # <<>> THEN PyRound(SumSeq(Overall_scores(dups)), Len(dups)) ELSE 0

\* any(d["IsLowConfidence"] for d in m_data["Duplicates"])
IsLowConfidenceGroup(dups) == \E k \in 1..Len(dups) : dups[k].IsLowConfidence

MasterRecord(m) ==
    [MasterRow            |-> m.MasterRow,
     MasterName           |-> m.MasterName,
     MasterAddress        |-> m.MasterAddress,
     DuplicateCount       |-> Len(m.Duplicates),
     AvgSimilarity        |-> AvgSimilarity(m.Duplicates),
     IsLowConfidenceGroup |-> IsLowConfidenceGroup(m.Duplicates),
     Duplicates           |-> m.Duplicates,
     master_uid           |-> m.master_uid]

Finalize ==
    /\ pc = "compare"
    /\ bi > Len(blocks)
    /\ masters_list' = [k \in 1..Len(master_records_dict) |->
                          MasterRecord(master_records_dict[k])]
    /\ pc' = "sort"
    /\ UNCHANGED <<df, col_map, call, error, work, row_i, blocks, block_stats, bi, ci,
                   compared, master_records_dict, results_df, fuzz_memo, uuid_state,
                   first_out, response>>

\* sort_values("AvgSimilarity", ascending=False): rows of equal AvgSimilarity keep
\* their order (numpy sorts fewer than 17 elements by insertion)
\* mutant: ascending=False is left out
RECURSIVE InsertDesc_Ascending(_, _)
InsertDesc_Ascending(sorted, g) ==
    IF sorted = <<>> THEN <<g>>
    ELSE IF Head(sorted).AvgSimilarity <= g.AvgSimilarity
         THEN <<Head(sorted)>> \o InsertDesc_Ascending(Tail(sorted), g)
         ELSE <<g>> \o sorted

RECURSIVE InsertDesc(_, _)
InsertDesc(sorted, g) ==
    IF sorted = <<>> THEN <<g>>
    ELSE IF Head(sorted).AvgSimilarity >= g.AvgSimilarity
         THEN <<Head(sorted)>> \o InsertDesc(Tail(sorted), g)
         ELSE <<g>> \o sorted

RECURSIVE SortFrom(_, _)
SortFrom(sorted, rest) ==
    IF rest = <<>> THEN sorted
    ELSE SortFrom(InsertDesc(sorted, Head(rest)), Tail(rest))

sort_values(groups) == SortFrom(<<>>, groups)

\* lines 219-223: the function returns results_df and block_stats
SortReturn ==
    /\ pc = "sort"
    /\ results_df' = Some(sort_values(masters_list))
    /\ pc' = "returned"
    /\ UNCHANGED <<df, col_map, call, error, work, row_i, blocks, block_stats, bi, ci,
                   compared, master_records_dict, masters_list, fuzz_memo, uuid_state,
                   first_out, response>>

\* ---------------------------------------------------------------- endpoint
IsHigh(g) == g.AvgSimilarity >= HighConfidenceFloor

IsMedium(g) ==
    g.AvgSimilarity < HighConfidenceFloor /\ g.AvgSimilarity >= LowConfidenceCeiling

IsLowGroup(g) == g.IsLowConfidenceGroup

DuplicateCounts(groups) == [k \in 1..Len(groups) |-> groups[k].DuplicateCount]

DeduplicationStats(groups, bstats) ==
    [high_confidence_duplicates_groups    |-> Len(SelectSeq(groups, IsHigh)),
     medium_confidence_duplicates_groups  |-> Len(SelectSeq(groups, IsMedium)),
     low_confidence_duplicates_groups     |-> Len(SelectSeq(groups, IsLowGroup)),
     block_stats                          |-> bstats,
     total_master_records_with_duplicates |-> Len(groups),
     total_potential_duplicate_records    |-> SumSeq(DuplicateCounts(groups))]

SuccessResponse(groups, bstats) ==
    [message |-> "Deduplication process completed.",
     error   |-> None,
     results |-> Some([duplicate_group_count      |-> Len(groups),
                       total_potential_duplicates |-> SumSeq(DuplicateCounts(groups)),
                       duplicates                 |-> groups,
                       stats                      |-> DeduplicationStats(groups, bstats)])]

ErrorResponse(e) == [message |-> "Deduplication error", error |-> Some(e), results |-> None]

EmptyFileResponse ==
    [message |-> "Uploaded file is empty.",
     error   |-> Some([kind |-> "File empty", column |-> "", available |-> <<>>]),
     results |-> None]

\* run_deduplication: if df_raw.empty, answer without calling build_duplicate_df
EmptyFile ==
    /\ pc = "request"
    /\ Len(df) = 0
    /\ response' = Some(EmptyFileResponse)
    /\ pc' = "responded"
    /\ UNCHANGED <<df, col_map, call, error, work, row_i, blocks, block_stats, bi, ci,
                   compared, master_records_dict, masters_list, results_df,
                   fuzz_memo, uuid_state, first_out>>

\* run_deduplication after build_duplicate_df returned
Respond ==
    /\ pc = "returned"
    /\ Len(df) > 0
    /\ response' = Some(SuccessResponse(results_df[1], block_stats[1]))
    /\ pc' = "responded"
    /\ UNCHANGED <<df, col_map, call, error, work, row_i, blocks, block_stats, bi, ci,
                   compared, master_records_dict, masters_list, results_df,
                   fuzz_memo, uuid_state, first_out>>

\* run_deduplication: except ValueError as ve
RespondError ==
    /\ pc = "raised"
    /\ Len(df) > 0
    /\ response' = Some(ErrorResponse(error[1]))
    /\ pc' = "responded"
    /\ UNCHANGED <<df, col_map, call, error, work, row_i, blocks, block_stats, bi, ci,
                   compared, master_records_dict, masters_list, results_df,
                   fuzz_memo, uuid_state, first_out>>

\* the invocation is over: the endpoint answered, or build_duplicate_df was
\* called on its own with an empty table (the endpoint never does that)
Finished ==
    \/ pc = "responded"
    \/ (pc \in {"returned", "raised"} /\ Len(df) = 0)

Output == [results_df |-> results_df, block_stats |-> block_stats,
           error |-> error, response |-> response]

\* the same table and mapping are submitted again.  The library's behaviour
\* and the uuid source go on; the locals of the first invocation are left as
\* they were, since the code assigns each of them before it reads it
Reinvoke ==
    /\ Finished
    /\ call = 1
    /\ first_out' = Some(Output)
    /\ call' = 2
    /\ pc' = "request"
    /\ error' = None
    /\ results_df' = None
    /\ response' = None
    /\ compared' = <<>>
    /\ UNCHANGED <<df, col_map, work, row_i, blocks, block_stats, bi, ci,
                   master_records_dict, masters_list, fuzz_memo, uuid_state>>

Next ==
    \/ Validate
    \/ Normalize
    \/ BlockRow
    \/ ComputeBlockStats
    \/ SkipBlock
    \/ ScorePair
    \/ Finalize
    \/ SortReturn
    \/ EmptyFile
    \/ Respond
    \/ RespondError
    \/ Reinvoke

Spec == Init /\ [][Next]_vars

\* ================================================================== claims
\* the locals blocks, block_stats and master_records_dict are those of the
\* current invocation
AfterBlocking == pc \in {"compare", "sort"} \/ results_df # None

\* the comparison loop of the current invocation is over
AfterCompare == pc = "sort" \/ results_df # None

\* build_duplicate_df has returned to its caller in the current invocation
HasReturned == results_df # None

NothingComputed ==
    /\ work = <<>>
    /\ blocks = <<>>
    /\ block_stats = None
    /\ compared = <<>>
    /\ master_records_dict = <<>>
    /\ masters_list = <<>>
    /\ results_df = None

\* ---------------------------------------------------------------------- C1
ScrubGroup(g) ==
    [g EXCEPT !.master_uid = 0,
              !.Duplicates = [k \in 1..Len(g.Duplicates) |->
                                 [g.Duplicates[k] EXCEPT !.uid = 0]]]

ScrubGroups(gs) == [k \in 1..Len(gs) |-> ScrubGroup(gs[k])]

ScrubResults(r) == IF r = None THEN None ELSE Some(ScrubGroups(r[1]))

ScrubResponse(r) ==
    IF r = None THEN None
    ELSE IF r[1].results = None THEN r
    ELSE Some([r[1] EXCEPT !.results =
                 Some([r[1].results[1] EXCEPT !.duplicates = ScrubGroups(@)])])

\* build_duplicate_df has ended (returned or raised) in both invocations
BothEnded ==
    /\ call = 2
    /\ pc \in {"returned", "raised", "responded"}
    /\ (results_df # None \/ error # None)
    /\ (first_out[1].results_df # None \/ first_out[1].error # None)

\* C1 as stated: the second invocation on the same table and mapping returns
\* the same ordered output as the first in every field, uid and master_uid
\* included, and the same block statistics.
C1_SameOutput ==
    BothEnded =>
        /\ results_df = first_out[1].results_df
        /\ block_stats = first_out[1].block_stats
        /\ error = first_out[1].error

\* C1 amended: the second invocation returns the same ordered output as the
\* first in every field but the uid and master_uid identifiers, the same block
\* statistics or the same error, and the endpoint the same response but for
\* those identifiers.
C1_SameOutputButUids ==
    BothEnded =>
        /\ ScrubResults(results_df) = ScrubResults(first_out[1].results_df)
        /\ block_stats = first_out[1].block_stats
        /\ error = first_out[1].error
        /\ (pc = "responded" /\ first_out[1].response # None)
              => ScrubResponse(response) = ScrubResponse(first_out[1].response)

C1_Witness ==
    /\ call = 2
    /\ pc = "responded"
    /\ results_df # None
    /\ Len(results_df[1]) >= 2
    /\ first_out[1].results_df # None
    /\ results_df # first_out[1].results_df

\* ---------------------------------------------------------------------- C2
ScoredFieldMapped(cm) == cm.customer_name # None \/ cm.address # None

\* C2 as stated: whenever validation passed, every pair that reaches the mean
\* has a non-empty list of present scores.
C2_ScoresNeverEmpty ==
    \A k \in 1..Len(compared) :
        compared[k].scored # None => compared[k].scored[1] # <<>>

\* C2 amended: for every pair that reaches the mean, the list of present
\* scores is non-empty exactly when customer_name or address is mapped; a
\* mapping of city, country or tpi alone passes validation, and then the list
\* is empty, overall is 0 and the pair is rejected.
C2_ScoresEmptyIffNoScoredField ==
    \A k \in 1..Len(compared) :
        compared[k].scored # None =>
            /\ error = None
            /\ compared[k].scored[1] # <<>> <=> ScoredFieldMapped(col_map)
            /\ compared[k].scored[1] = <<>> =>
                  /\ compared[k].overall = Some(0)
                  /\ compared[k].outcome = "overall_floor"

C2_Witness ==
    /\ pc = "responded"
    /\ response[1].results # None
    /\ \E k \in 1..Len(compared) : compared[k].scored = Some(<<>>)

\* ---------------------------------------------------------------------- C3
AllAbsent(cm) == \A k \in 1..Len(FieldOrder) : cm[FieldOrder[k]] = None

\* C3: when every logical field of the mapping is None, build_duplicate_df
\* raises the no-valid-columns error whatever the table is, having computed and
\* returned nothing, and the endpoint answers with that error and no results
\* (an empty upload is answered before build_duplicate_df is called).
C3_NoFieldsMapped ==
    AllAbsent(col_map) =>
        /\ NothingComputed
        /\ \/ pc = "request" /\ error = None /\ response = None
           \/ /\ pc = "raised"
              /\ error # None /\ error[1].kind = "NoValidColumns"
              /\ response = None
           \/ /\ pc = "responded" /\ Len(df) = 0
              /\ error = None
              /\ response[1].error[1].kind = "File empty"
              /\ response[1].results = None
           \/ /\ pc = "responded" /\ Len(df) > 0
              /\ error # None /\ error[1].kind = "NoValidColumns"
              /\ response[1].error = error
              /\ response[1].results = None

C3_Witness ==
    /\ AllAbsent(col_map)
    /\ Len(df) >= 2
    /\ pc = "responded"
    /\ response[1].error[1].kind = "NoValidColumns"
    /\ response[1].results = None

\* ---------------------------------------------------------------------- C4
MissingFields(cm) ==
    { k \in 1..Len(FieldOrder) :
        cm[FieldOrder[k]] # None /\ \A c \in 1..Len(Columns) : Columns[c] # cm[FieldOrder[k]][1] }

FirstMissingField(cm) == CHOOSE k \in MissingFields(cm) : \A j \in MissingFields(cm) : k <= j

\* C4: when the mapping names a column the table does not have,
\* build_duplicate_df raises before normalising, blocking or scoring anything,
\* the error names a missing column (the first one in field order) and lists
\* the table's columns, nothing is returned, and the endpoint answers with
\* that error and no results.
C4_ColumnNotFound ==
    MissingFields(col_map) # {} =>
        /\ NothingComputed
        /\ \/ pc = "request" /\ error = None /\ response = None
           \/ /\ pc = "responded" /\ Len(df) = 0 /\ error = None
              /\ response[1].error[1].kind = "File empty"
              /\ response[1].results = None
           \/ /\ \/ pc = "raised" /\ response = None
                 \/ /\ pc = "responded" /\ Len(df) > 0
                    /\ response[1].error = error
                    /\ response[1].results = None
              /\ error # None
              /\ error[1].kind = "ColumnNotFound"
              /\ error[1].column = col_map[FieldOrder[FirstMissingField(col_map)]][1]
              /\ error[1].available = Columns

C4_Witness ==
    /\ col_map.customer_name = Some("Name")
    /\ col_map.address = Some("Addr")
    /\ Len(df) >= 2
    /\ pc = "responded"
    /\ response[1].error[1].kind = "ColumnNotFound"
    /\ response[1].error[1].column = "Addr"
    /\ response[1].results = None

\* ------------------------------------------------------- groups and details
\* the group sequences that belong to the current invocation
GroupSeqs ==
    (IF AfterBlocking THEN {master_records_dict} ELSE {})
    \cup (IF AfterCompare THEN {masters_list} ELSE {})
    \cup (IF HasReturned THEN {results_df[1]} ELSE {})

\* every <<MasterRow, DuplicateDetail>> of those sequences
DetailsOf(gs) ==
    UNION { { <<gs[g].MasterRow, gs[g].Duplicates[d]>> :
                d \in 1..Len(gs[g].Duplicates) } : g \in 1..Len(gs) }

Details == UNION { DetailsOf(gs) : gs \in GroupSeqs }

HasDetail(gs, k) ==
    \E g \in 1..Len(gs) :
        /\ gs[g].MasterRow = compared[k].i1 + 2
        /\ \E d \in 1..Len(gs[g].Duplicates) :
              /\ gs[g].Duplicates[d].Row = compared[k].i2 + 2
              /\ gs[g].Duplicates[d].Overall_score = compared[k].overall[1]

\* ---------------------------------------------------------------------- C5
\* C5: a pair of one block that the name floor does not reject gets a
\* DuplicateDetail exactly when its overall score is at least 70 (70 is
\* accepted, 69 is not), and every DuplicateDetail has an Overall_score
\* from 70 to 100.
C5_ThresholdBoundary ==
    /\ \A gs \in GroupSeqs : \A k \in 1..Len(compared) :
          compared[k].outcome # "name_floor" =>
              (HasDetail(gs, k) <=> compared[k].overall[1] >= 70)
    /\ \A x \in Details : x[2].Overall_score >= 70 /\ x[2].Overall_score <= 100

C5_Witness ==
    /\ pc = "responded"
    /\ HasReturned
    /\ \E k \in 1..Len(compared) :
          /\ compared[k].overall = Some(70)
          /\ HasDetail(results_df[1], k)
    /\ \E k \in 1..Len(compared) :
          /\ compared[k].outcome # "name_floor"
          /\ compared[k].overall = Some(69)
          /\ ~HasDetail(results_df[1], k)

\* ---------------------------------------------------------------------- C6
\* C6: every DuplicateDetail has IsLowConfidence true exactly when its
\* Overall_score is below 90 (false at 90, true at 89).
C6_ConfidenceBoundary ==
    \A x \in Details : x[2].IsLowConfidence <=> x[2].Overall_score < 90

C6_Witness ==
    /\ pc = "responded"
    /\ HasReturned
    /\ \E x \in Details : x[2].Overall_score = 90 /\ ~x[2].IsLowConfidence
    /\ \E x \in Details : x[2].Overall_score = 89 /\ x[2].IsLowConfidence

\* ---------------------------------------------------------------------- C7
\* C7: the loop body never runs on a record paired with itself, and no group
\* lists its own MasterRow among the Row values of its Duplicates.
C7_NoSelfComparison ==
    /\ \A k \in 1..Len(compared) : compared[k].i1 # compared[k].i2
    /\ \A x \in Details : x[2].Row # x[1]

C7_Witness ==
    /\ pc = "responded"
    /\ HasReturned
    /\ \E g \in 1..Len(results_df[1]) : Len(results_df[1][g].Duplicates) >= 2

\* ---------------------------------------------------------------------- C8
RowIndexes == 0..(Len(df) - 1)

SameBlock(i, j) == BlockKey(col_map, work[i + 1]) = BlockKey(col_map, work[j + 1])

TimesCompared(i, j) ==
    Cardinality({ k \in 1..Len(compared) : {compared[k].i1, compared[k].i2} = {i, j} })

\* C8: the loop body runs on two records only if they are distinct and have
\* the same block key, never twice on one unordered pair, and, once the loop
\* is over, exactly once on every unordered pair of distinct records with the
\* same block key; no group holds a duplicate whose block key differs from
\* its anchor's.
C8_BlockingSoundness ==
    AfterBlocking =>
        /\ \A k \in 1..Len(compared) :
              /\ compared[k].i1 # compared[k].i2
              /\ SameBlock(compared[k].i1, compared[k].i2)
        /\ \A i \in RowIndexes : \A j \in RowIndexes :
              i < j =>
                  /\ TimesCompared(i, j) <= 1
                  /\ AfterCompare =>
                        TimesCompared(i, j) = (IF SameBlock(i, j) THEN 1 ELSE 0)
        /\ \A x \in Details : SameBlock(x[1] - 2, x[2].Row - 2)

\* two records with the same name in different blocks, names alone scored
C8_Witness ==
    /\ pc = "responded"
    /\ HasReturned
    /\ col_map.customer_name # None
    /\ col_map.address = None
    /\ \E i \in RowIndexes : \E j \in RowIndexes :
          /\ i < j
          /\ ~SameBlock(i, j)
          /\ df[i + 1].Name = df[j + 1].Name
          /\ ~IsBlank(df[i + 1].Name)
          /\ TimesCompared(i, j) = 0
    /\ Len(results_df[1]) >= 1

\* ---------------------------------------------------------------------- C9
Placements(i) ==
    { <<b, p>> \in (1..Len(blocks)) \X (1..MaxRows + 1) :
        p <= Len(blocks[b].rows) /\ blocks[b].rows[p] = i }

KeysOfRows == { BlockKey(col_map, work[i + 1]) : i \in RowIndexes }

RowsWithKey(key) == { i \in RowIndexes : BlockKey(col_map, work[i + 1]) = key }

IsLargestBlock(n) ==
    IF RowIndexes = {} THEN n = 0
    ELSE /\ \E key \in KeysOfRows : Cardinality(RowsWithKey(key)) = n
         /\ \A key \in KeysOfRows : Cardinality(RowsWithKey(key)) <= n

\* C9: after blocking every row index is in exactly one block, once;
\* records_in_blocks is the number of rows, total_blocks the number of
\* distinct block keys and max_block_size the size of the largest block,
\* blocks of one row included; a table of one row gives 1, 1, 1 and no group.
C9_BlockPartition ==
    AfterBlocking =>
        /\ \A i \in RowIndexes : Cardinality(Placements(i)) = 1
        /\ \A b \in 1..Len(blocks) : \A p \in 1..Len(blocks[b].rows) :
              /\ blocks[b].rows[p] \in RowIndexes
              /\ BlockKey(col_map, work[blocks[b].rows[p] + 1]) = blocks[b].key
        /\ block_stats[1].records_in_blocks = Len(df)
        /\ block_stats[1].total_blocks = Cardinality(KeysOfRows)
        /\ IsLargestBlock(block_stats[1].max_block_size)
        /\ Len(df) = 1 =>
              /\ block_stats[1].total_blocks = 1
              /\ block_stats[1].max_block_size = 1
              /\ block_stats[1].records_in_blocks = 1
              /\ \A gs \in GroupSeqs : gs = <<>>

C9_Witness ==
    /\ pc = "responded"
    /\ HasReturned
    /\ Len(df) = 3
    /\ \E b \in 1..Len(blocks) : Len(blocks[b].rows) = 1
    /\ \E b \in 1..Len(blocks) : Len(blocks[b].rows) = 2
    /\ response[1].results[1].stats.block_stats.total_blocks = 2
    /\ response[1].results[1].stats.block_stats.records_in_blocks = 3

\* --------------------------------------------------------------------- C10
AcceptedWith(row) ==
    { k \in 1..Len(compared) :
        compared[k].outcome = "accepted" /\ compared[k].i1 + 2 = row }

AnchorRows == { compared[k].i1 + 2 : k \in { j \in 1..Len(compared) :
                                               compared[j].outcome = "accepted" } }

\* a is total / n rounded to the nearest integer, a half to the even one
IsRoundedMean(a, total, n) ==
    LET twice == IF n * a >= total THEN 2 * (n * a - total) ELSE 2 * (total - n * a)
    IN  /\ twice <= n
        /\ twice = n => a % 2 = 0

\* C10: once the loop is over there is exactly one group for each anchor row
\* with an accepted pair and none for any other row; in each group
\* DuplicateCount is the length of Duplicates (at least 1), AvgSimilarity is
\* the mean of the duplicates' Overall_score rounded to the nearest integer
\* with halves to the even one, and IsLowConfidenceGroup is true exactly when
\* some duplicate has IsLowConfidence true.
C10_GroupFinalization ==
    AfterCompare =>
        \A gs \in GroupSeqs \ {master_records_dict} :
            /\ { gs[g].MasterRow : g \in 1..Len(gs) } = AnchorRows
            /\ Len(gs) = Cardinality(AnchorRows)
            /\ \A g \in 1..Len(gs) :
                  /\ gs[g].DuplicateCount = Len(gs[g].Duplicates)
                  /\ gs[g].DuplicateCount >= 1
                  /\ gs[g].DuplicateCount = Cardinality(AcceptedWith(gs[g].MasterRow))
                  /\ IsRoundedMean(gs[g].AvgSimilarity,
                                   SumSeq([d \in 1..Len(gs[g].Duplicates) |->
                                             gs[g].Duplicates[d].Overall_score]),
                                   Len(gs[g].Duplicates))
                  /\ gs[g].IsLowConfidenceGroup <=>
                        \E d \in 1..Len(gs[g].Duplicates) :
                            gs[g].Duplicates[d].IsLowConfidence

\* a group of two duplicates whose mean is a half
C10_Witness ==
    /\ pc = "responded"
    /\ HasReturned
    /\ \E g \in 1..Len(results_df[1]) :
          /\ results_df[1][g].DuplicateCount = 2
          /\ (results_df[1][g].Duplicates[1].Overall_score
              + results_df[1][g].Duplicates[2].Overall_score) % 2 = 1
    /\ \E r \in RowIndexes : r + 2 \notin AnchorRows

\* --------------------------------------------------------------------- C11
TimesIn(gs, g) == Cardinality({ k \in 1..Len(gs) : gs[k] = g })

\* C11: the sequence returned holds every finalised group exactly once and
\* nothing else, and each group's AvgSimilarity is at least that of the
\* group after it.
C11_OutputOrdering ==
    HasReturned =>
        /\ Len(results_df[1]) = Len(masters_list)
        /\ \A k \in 1..Len(masters_list) : TimesIn(results_df[1], masters_list[k]) = 1
        /\ \A k \in 1..Len(results_df[1]) : TimesIn(masters_list, results_df[1][k]) = 1
        /\ \A k \in 1..(Len(results_df[1]) - 1) :
              results_df[1][k].AvgSimilarity >= results_df[1][k + 1].AvgSimilarity

\* the sort moved a group: the first finalised group is not the first returned
C11_Witness ==
    /\ pc = "responded"
    /\ HasReturned
    /\ Len(results_df[1]) >= 2
    /\ results_df[1][1] # masters_list[1]
    /\ results_df[1][1].AvgSimilarity > results_df[1][2].AvgSimilarity

\* --------------------------------------------------------------------- C12
HasDetailFor(gs, i1, i2) ==
    \E g \in 1..Len(gs) :
        /\ gs[g].MasterRow = i1 + 2
        /\ \E d \in 1..Len(gs[g].Duplicates) : gs[g].Duplicates[d].Row = i2 + 2

\* the mean the two scores would have, had the address been scored
WouldBeOverall(k) ==
    LET a1 == Cell(col_map, work[compared[k].i1 + 1], "address")
        a2 == Cell(col_map, work[compared[k].i2 + 1], "address")
    IN  { PyRound(compared[k].name_s + as, 2) :
            as \in neo_token_set_ratio(fuzz_memo, a1, a2) }

\* C12: with a name column mapped, a pair whose name score is below 70 gets
\* no DuplicateDetail and its address is not scored, whatever the address
\* score would be; every DuplicateDetail has a Name_score of at least 70.
C12_NameFloor ==
    (AfterBlocking /\ col_map.customer_name # None) =>
        /\ \A k \in 1..Len(compared) :
              compared[k].name_s < 70 =>
                  /\ compared[k].outcome = "name_floor"
                  /\ compared[k].scored = None
                  /\ \A gs \in GroupSeqs :
                        ~HasDetailFor(gs, compared[k].i1, compared[k].i2)
        /\ \A x \in Details : x[2].Name_score # None /\ x[2].Name_score[1] >= 70

\* names score 69, the addresses are the same string: the mean would be 84
C12_Witness ==
    /\ pc = "responded"
    /\ HasReturned
    /\ col_map.customer_name # None
    /\ col_map.address # None
    /\ \E k \in 1..Len(compared) :
          /\ compared[k].name_s = 69
          /\ WouldBeOverall(k) = {84}
          /\ ~HasDetailFor(results_df[1], compared[k].i1, compared[k].i2)
    /\ Len(results_df[1]) >= 1

\* --------------------------------------------------------------------- C13
\* The block key on its own: one-row tables whose name and city range over
\* every string of a small alphabet, taken through validation, normalisation
\* and blocking.
MaxNameLen == 5
MaxCityLen == 2

NameChars == {"A", "b", "-"}
CityChars == {"O", " "}

StringsUpTo(chars, n) == UNION { [1..k -> chars] : k \in 0..n }

KeyTables ==
    { <<[Name |-> n, Address |-> Str_MainSt, City |-> c,
         Country |-> Str_NO, TPI |-> Str_Empty]>> :
        n \in StringsUpTo(NameChars, MaxNameLen), c \in StringsUpTo(CityChars, MaxCityLen) }

KeyColumnMaps ==
    [customer_name : {None, Some("Name")},
     address       : {None},
     city          : {None, Some("City")},
     country       : {Some("Country")},
     tpi           : {None}]

KeyInit ==
    /\ df \in KeyTables
    /\ col_map \in KeyColumnMaps
    /\ pc = "request"
    /\ call = 1
    /\ error = None
    /\ work = <<>>
    /\ row_i = 0
    /\ blocks = <<>>
    /\ block_stats = None
    /\ bi = 1
    /\ ci = 1
    /\ compared = <<>>
    /\ master_records_dict = <<>>
    /\ masters_list = <<>>
    /\ results_df = None
    /\ fuzz_memo = {}
    /\ uuid_state = 0
    /\ first_out = None
    /\ response = None

KeyNext ==
    \/ Validate
    \/ Normalize
    \/ BlockRow
    \/ ComputeBlockStats

SpecKey == KeyInit /\ [][KeyNext]_vars

ExpectedNamePrefix(w) ==
    LET n == w.customer_name_norm
    IN  IF col_map.customer_name # None /\ n # <<>>
        THEN IF Len(n) <= 3 THEN n ELSE <<n[1], n[2], n[3], n[4]>>
        ELSE <<"x", "x", "x", "x">>

ExpectedCityPrefix(w) ==
    IF col_map.city # None /\ w.city_norm # <<>> THEN <<w.city_norm[1]>> ELSE <<"y">>

\* C13: the key of every placed row is name_prefix, "_", city_prefix:
\* name_prefix is the first 4 characters of the normalised name (all of it
\* when it has 1 to 3) if a name column is mapped and the normalised name is
\* not empty, and "xxxx" otherwise; city_prefix is the first character of the
\* normalised city if a city column is mapped and the normalised city is not
\* empty, and "y" otherwise.
C13_BlockKey ==
    (pc = "blocking" \/ AfterBlocking) =>
        \A b \in 1..Len(blocks) : \A p \in 1..Len(blocks[b].rows) :
            blocks[b].key = ExpectedNamePrefix(work[blocks[b].rows[p] + 1])
                            \o <<"_">>
                            \o ExpectedCityPrefix(work[blocks[b].rows[p] + 1])

\* a normalised name of 3 characters, kept unpadded, and a blank mapped city
C13_Witness ==
    /\ pc = "compare"
    /\ col_map.customer_name # None
    /\ col_map.city # None
    /\ df[1].Name = <<"-", "A", "-", "-", "b">>
    /\ df[1].City = <<" ">>
    /\ blocks = <<[key |-> <<"a", " ", "b", "_", "y">>, rows |-> <<0>>]>>

\* --------------------------------------------------------------------- C14
FinalGroupSeqs == GroupSeqs \ {master_records_dict}

\* C14: for every finalised group IsLowConfidenceGroup is true exactly when
\* AvgSimilarity is below 90, so no group counted as low-confidence is also
\* counted as medium (90 <= AvgSimilarity < 98) or high (AvgSimilarity >= 98).
C14_LowIffBelow90 ==
    AfterCompare =>
        \A gs \in FinalGroupSeqs : \A g \in 1..Len(gs) :
            /\ gs[g].IsLowConfidenceGroup <=> gs[g].AvgSimilarity < 90
            /\ ~(gs[g].IsLowConfidenceGroup /\ gs[g].AvgSimilarity >= 90
                                            /\ gs[g].AvgSimilarity < 98)
            /\ ~(gs[g].IsLowConfidenceGroup /\ gs[g].AvgSimilarity >= 98)

\* --------------------------------------------------------------------- C15
\* C15: in every group each duplicate's Row is greater than MasterRow, and
\* the Duplicates are in strictly increasing Row order.
C15_AnchorIsLowestRow ==
    \A gs \in GroupSeqs : \A g \in 1..Len(gs) :
        /\ \A d \in 1..Len(gs[g].Duplicates) :
              gs[g].Duplicates[d].Row > gs[g].MasterRow
        /\ \A d \in 1..(Len(gs[g].Duplicates) - 1) :
              gs[g].Duplicates[d].Row < gs[g].Duplicates[d + 1].Row

C15_Witness ==
    /\ pc = "responded"
    /\ HasReturned
    /\ \E g \in 1..Len(results_df[1]) :
          /\ results_df[1][g].MasterRow = 2
          /\ Len(results_df[1][g].Duplicates) = 2
          /\ results_df[1][g].Duplicates[1].Row = 3
          /\ results_df[1][g].Duplicates[2].Row = 4

\* --------------------------------------------------------------------- C16
Accepted == { k \in 1..Len(compared) : compared[k].outcome = "accepted" }

\* where in gs the detail of the pair compared[k] is
PlacesOf(gs, k) ==
    { <<g, d>> \in (1..Len(gs)) \X (1..MaxRows + 1) :
        /\ d <= Len(gs[g].Duplicates)
        /\ gs[g].MasterRow = compared[k].i1 + 2
        /\ gs[g].Duplicates[d].Row = compared[k].i2 + 2 }

RECURSIVE TotalDuplicates(_)
TotalDuplicates(gs) ==
    IF gs = <<>> THEN 0 ELSE Len(Head(gs).Duplicates) + TotalDuplicates(Tail(gs))

DuplicateRows(gs) == { x[2].Row : x \in DetailsOf(gs) }

\* C16: every accepted pair is one DuplicateDetail of one group, the group
\* of the pair's first record, and a rejected pair is none; once the loop is
\* over the details number the accepted pairs, and so does
\* total_potential_duplicate_records in the response.
C16_OneDetailPerAcceptedPair ==
    /\ \A gs \in GroupSeqs : \A k \in 1..Len(compared) :
          Cardinality(PlacesOf(gs, k)) = (IF k \in Accepted THEN 1 ELSE 0)
    /\ \A gs \in GroupSeqs : TotalDuplicates(gs) = Cardinality(Accepted)
    /\ (pc = "responded" /\ HasReturned) =>
          /\ response[1].results[1].stats.total_potential_duplicate_records
                = Cardinality(Accepted)
          /\ response[1].results[1].total_potential_duplicates = Cardinality(Accepted)

\* row 3 is the anchor of one group and a duplicate in another, row 4 is a
\* duplicate in both: 3 details, 2 distinct duplicate rows
C16_Witness ==
    /\ pc = "responded"
    /\ HasReturned
    /\ HasDetailFor(results_df[1], 0, 1)
    /\ HasDetailFor(results_df[1], 0, 2)
    /\ HasDetailFor(results_df[1], 1, 2)
    /\ response[1].results[1].stats.total_potential_duplicate_records = 3
    /\ Cardinality(DuplicateRows(results_df[1])) = 2

====
